---- MODULE Spec2Model ----
(***************************************************************************)
(* Model of the galaxy viewer of src/src/main.js (class GalaxyViewer,      *)
(* lines 244-1603): the focus/selection state machine, the HD-mesh loads   *)
(* that span an await, the repulsion toy physics and the per-frame         *)
(* restore / camera animation closures.                                    *)
(*                                                                         *)
(* Geometry is one-dimensional fixed point: a position or a velocity is    *)
(* an integer number of tenths of a world unit.  Time is counted in ticks  *)
(* of 0.1 s.                                                               *)
(***************************************************************************)
EXTENDS Integers, Sequences, FiniteSets, TLC

\* ------------------------------------------------------------------ bounds
\* number of focusOnPlanet / clearPlanetFocus calls explored
MaxCalls == 2
\* number of frames of animate() explored
MaxFrames == 2
\* number of 'input' events of the search box explored
MaxInputs == 2

\* ------------------------------------------------------- program constants
\* this.selectedPlanetIndex = null
NoPlanet == -1
\* this.focusedHdMesh = null
NoMesh == 0
\* this.focusedHdMeshKey = null
NoKey == "null"

\* REPULSION_CONFIG.radius: 40 world units
radius == 400
\* REPULSION_CONFIG.strength: 0.8 world units per frame
strength == 8
\* REPULSION_CONFIG.dampingFactor: 0.92, as a percentage
dampingFactor == 92

\* restorePlanetsToOriginalPositions(0.5) of focusOnPlanet, in ticks
SwitchRestoreDuration == 5
\* restorePlanetsToOriginalPositions(duration = 0.8), in ticks
DefaultRestoreDuration == 8
\* animateCameraTo: const duration = 1.5, in ticks
CameraDuration == 15
\* animateCameraTo: distance = CONFIG.SPHERE_RADIUS * 0.03 = 6 world units
CameraDistance == 60

\* time that passes between two frames of the browser, in ticks
FrameDts == {5}
\* the same for a browser that draws one frame a second
SlowFrameDts == {10}

\* ------------------------------------------------------------------ state
VARIABLES
    selectedPlanetIndex,  \* this.selectedPlanetIndex
    position,             \* planetData[i].position
    originalPosition,     \* planetData[i].originalPosition
    focused,              \* planetData[i].focused
    planetVelocities,     \* this.planetVelocities
    focusedHdMesh,        \* this.focusedHdMesh (a mesh id)
    focusedHdMeshKey,     \* this.focusedHdMeshKey
    alwaysVisibleMeshes,  \* this.alwaysVisibleMeshes: key -> mesh id
    sceneMeshes,          \* HD meshes that scene.add put in the scene
    meshKey,              \* biome key each created HD mesh was built for
    meshPosition,         \* hdMesh.position of each created HD mesh
    HdTextureCache,       \* HdTextureCache: key -> textures
    pendingLoads,         \* focusOnPlanet calls suspended at their await
    hdCalls,              \* number of createHDPlanetMesh calls made
    rafQueue,             \* closures handed to requestAnimationFrame
    cameraPosition,       \* this.camera.position
    controlsTarget,       \* this.controls.target
    planetInfo,           \* planet shown by #planet-info, NoPlanet if empty
    loaderVisible,        \* #planet-loader without the class hidden
    spotlightsVisible,    \* spotlight.visible / dustCloud.visible
    spotlightTarget,      \* spotlight.target.position
    frameError,           \* the last frame of animate() threw
    frames,               \* frames of animate() run so far
    calls,                \* focusOnPlanet / clearPlanetFocus calls so far
    restoreWriters,       \* restore closures that wrote in the last frame
    cameraWriters,        \* camera closures that wrote in the last frame
    restoreSettled,       \* the restore of the last call has run to its end
    last,                 \* the handler that ran last and what it saw
    loadOutcome,          \* how the fetch of planets.json ended
    initDone,             \* init() has run to its end
    instancedMeshVisible, \* this.instancedMesh.visible
    click,                \* the click being dispatched / last on an overlay
    timers,               \* the timers setTimeout made for the search box
    bench                 \* argument and result of a function under test


\* the records of planets.json: biome key and the position that
\* createInstancedPlanets derives for the record
planetsJson ==
    << [name |-> "Mustafar",  biome |-> "volcanic",  at |-> 0],
       [name |-> "Coruscant", biome |-> "coruscant", at |-> 250],
       [name |-> "Naboo",     biome |-> "naboo",     at |-> 500] >>

\* what fetch('./planets.json') and response.json() can do
LoadOutcomes == {"ok", "fetchFails", "parseFails"}

\* a loadPlanets without its try / catch: the rejection leaves init()
loadPlanetsUncaught(outcome) ==
    [planets |-> IF outcome = "ok" THEN planetsJson ELSE << >>,
     thrown |-> outcome # "ok"]

\* loadPlanets, lines 419-432: the catch block stores an empty catalog
loadPlanets(outcome) ==
    [planets |-> IF outcome = "ok" THEN planetsJson ELSE << >>,
     thrown |-> FALSE]

\* this.planets once loadPlanets has returned
planets == loadPlanets(loadOutcome).planets

\* global indices of planetData (planetData[k].index = k)
PlanetIndices == 0 .. (Len(planets) - 1)

\* an index that matches no planet of planetData
BadIndex == Len(planets)

\* keys of TEXTURE_MAPS: the generic biomes and the planet specific ones
TEXTURE_MAPS == {"volcanic", "oceanic", "coruscant", "taris"}

\* PLANET_SPECIFIC_TEXTURES[key]?.alwaysVisible
alwaysVisible(key) == key \in {"coruscant", "taris"}

biomeOf(i) == planets[i + 1].biome

\* ---------------------------------------------------------------- helpers
Abs(a) == IF a < 0 THEN -a ELSE a

Sign(a) == IF a < 0 THEN -1 ELSE IF a > 0 THEN 1 ELSE 0

Min(a, b) == IF a < b THEN a ELSE b

\* division of the fixed point arithmetic, rounding toward zero
Quot(a, b) == Sign(a) * (Abs(a) \div b)

\* Vector3.lerpVectors(v1, v2, alpha) with alpha = num / den
lerpVectors(v1, v2, num, den) == v1 + Quot((v2 - v1) * num, den)

vars == << selectedPlanetIndex, position, originalPosition, focused,
           planetVelocities, focusedHdMesh, focusedHdMeshKey,
           alwaysVisibleMeshes, sceneMeshes, meshKey, meshPosition,
           HdTextureCache, pendingLoads, hdCalls, rafQueue, cameraPosition,
           controlsTarget, planetInfo, loaderVisible, spotlightsVisible,
           spotlightTarget, frameError, frames, calls, restoreWriters,
           cameraWriters, restoreSettled, last, loadOutcome, initDone,
           instancedMeshVisible, click, timers, bench >>

\* no click is being dispatched
NoClick ==
    [target |-> "none", phase |-> "idle", raycast |-> FALSE,
     hit |-> NoPlanet]

\* no function is under test
NoBench == [fn |-> "none"]

MeshIds == 1 .. MaxCalls

\* a handler can start: init() has installed the listeners and started the
\* loop, and no click is on its way from its target to window
Idle == initDone /\ click.phase # "bubbling"

\* constructor and init(): createInstancedPlanets stores position and
\* originalPosition as two clones and a zero velocity for every planet;
\* a rejection of loadPlanets would end init() at its first line
ViewerInit(outcome) ==
    /\ loadOutcome = outcome
    /\ initDone = ~loadPlanets(outcome).thrown
    /\ instancedMeshVisible = TRUE
    /\ click = NoClick
    /\ timers = << >>
    /\ selectedPlanetIndex = NoPlanet
    /\ position = [i \in PlanetIndices |-> planets[i + 1].at]
    /\ originalPosition = [i \in PlanetIndices |-> planets[i + 1].at]
    /\ focused = [i \in PlanetIndices |-> FALSE]
    /\ planetVelocities = [i \in PlanetIndices |-> 0]
    /\ focusedHdMesh = NoMesh
    /\ focusedHdMeshKey = NoKey
    /\ alwaysVisibleMeshes = [k \in TEXTURE_MAPS |-> NoMesh]
    /\ sceneMeshes = {}
    /\ meshKey = [m \in MeshIds |-> NoKey]
    /\ meshPosition = [m \in MeshIds |-> 0]
    /\ HdTextureCache = [k \in TEXTURE_MAPS |-> "absent"]
    /\ pendingLoads = {}
    /\ hdCalls = 0
    /\ rafQueue = << >>
    /\ cameraPosition = 0
    /\ controlsTarget = 0
    /\ planetInfo = NoPlanet
    /\ loaderVisible = FALSE
    /\ spotlightsVisible = FALSE
    /\ spotlightTarget = 0
    /\ frameError = FALSE
    /\ frames = 0
    /\ calls = 0
    /\ restoreWriters = 0
    /\ cameraWriters = 0
    /\ restoreSettled = FALSE
    /\ last = [op |-> "init", planet |-> NoPlanet, selBefore |-> NoPlanet,
               mesh |-> NoMesh, moving |-> FALSE, displaced |-> FALSE,
               restoreEnded |-> FALSE, suspended |-> FALSE]

\* the page after its load, whatever the fetch of planets.json did
Init == \E outcome \in LoadOutcomes : ViewerInit(outcome) /\ bench = NoBench

\* what a handler records about its own run
Ran(op, planet, mesh) ==
    [op |-> op, planet |-> planet, selBefore |-> selectedPlanetIndex,
     mesh |-> mesh,
     moving |-> \E j \in PlanetIndices : planetVelocities[j] # 0,
     displaced |-> \E j \in PlanetIndices :
                       position[j] # originalPosition[j],
     restoreEnded |-> FALSE, suspended |-> FALSE]

\* ------------------------------------------------ animation closures
\* the closure `animate` of restorePlanetsToOriginalPositions(duration):
\* startTime and startPositions are sampled at the call
RestoreClosure(duration) ==
    [kind |-> "restore", elapsed |-> 0, duration |-> duration,
     startPositions |-> position, planet |-> NoPlanet,
     startPosition |-> 0, startTarget |-> 0, cameraTarget |-> 0]

\* the closure `animate` of animateCameraTo(planet.position): targetPosition
\* is the planet's own vector, cameraTarget a clone pushed out by distance
CameraClosure(i) ==
    [kind |-> "camera", elapsed |-> 0, duration |-> CameraDuration,
     startPositions |-> [j \in PlanetIndices |-> 0], planet |-> i,
     startPosition |-> cameraPosition, startTarget |-> controlsTarget,
     cameraTarget |-> position[i] + Sign(position[i]) * CameraDistance]

\* restorePlanetsToOriginalPositions(duration): the first run of the
\* closure is at progress 0 and writes back what it read
restorePlanetsToOriginalPositions(queue, duration) ==
    Append(queue, RestoreClosure(duration))

\* animateCameraTo(targetPosition), first run at progress 0 likewise
animateCameraTo(queue, i) == Append(queue, CameraClosure(i))

\* ------------------------------------------------------- focusOnPlanet
\* lines 1308-1328: the mesh of the previous focus leaves the scene unless
\* its key is always visible
KeepsOldMesh ==
    focusedHdMesh = NoMesh \/ alwaysVisible(focusedHdMeshKey)

MeshAfterRemoval == IF KeepsOldMesh THEN focusedHdMesh ELSE NoMesh

SceneAfterRemoval ==
    IF KeepsOldMesh THEN sceneMeshes ELSE sceneMeshes \ {focusedHdMesh}

\* a focusOnPlanet that returns when it holds no HD mesh
FocusTailNeedsMesh(i, hd, fm, queue) ==
    /\ focusedHdMesh' = IF hd # NoMesh THEN hd ELSE fm
    /\ focusedHdMeshKey' = IF hd # NoMesh THEN biomeOf(i) ELSE focusedHdMeshKey
    /\ meshPosition' = IF hd # NoMesh
                       THEN [meshPosition EXCEPT ![hd] = position[i]]
                       ELSE meshPosition
    /\ spotlightsVisible' = IF hd # NoMesh THEN TRUE ELSE spotlightsVisible
    /\ spotlightTarget' = IF hd # NoMesh THEN position[i] ELSE spotlightTarget
    /\ loaderVisible' = FALSE
    /\ planetInfo' = IF hd # NoMesh THEN i ELSE planetInfo
    /\ rafQueue' = IF hd # NoMesh THEN animateCameraTo(queue, i) ELSE queue

\* lines 1357-1425: what focusOnPlanet does once it holds hdMesh (or null)
FocusTail(i, hd, fm, queue) ==
    /\ focusedHdMesh' = IF hd # NoMesh THEN hd ELSE fm
    /\ focusedHdMeshKey' = IF hd # NoMesh THEN biomeOf(i) ELSE focusedHdMeshKey
    /\ meshPosition' = IF hd # NoMesh
                       THEN [meshPosition EXCEPT ![hd] = position[i]]
                       ELSE meshPosition
    /\ spotlightsVisible' = IF hd # NoMesh THEN TRUE ELSE spotlightsVisible
    /\ spotlightTarget' = IF hd # NoMesh THEN position[i] ELSE spotlightTarget
    /\ loaderVisible' = FALSE
    /\ planetInfo' = i
    /\ rafQueue' = animateCameraTo(queue, i)

\* lines 1339-1352: createHDPlanetMesh has returned mesh `id` (ok) or null
AfterAwait(i, id, ok, fm, scene, queue) ==
    /\ sceneMeshes' = IF ok THEN scene \cup {id} ELSE scene
    /\ alwaysVisibleMeshes' =
           IF ok /\ alwaysVisible(biomeOf(i))
           THEN [alwaysVisibleMeshes EXCEPT ![biomeOf(i)] = id]
           ELSE alwaysVisibleMeshes
    /\ meshKey' = IF ok THEN [meshKey EXCEPT ![id] = biomeOf(i)] ELSE meshKey
    /\ FocusTail(i, IF ok THEN id ELSE NoMesh, fm, queue)

\* lines 1272-1274: a restore is started when another planet was selected
QueueAfterSwitch(i) ==
    IF selectedPlanetIndex # NoPlanet /\ selectedPlanetIndex # i
    THEN restorePlanetsToOriginalPositions(rafQueue, SwitchRestoreDuration)
    ELSE rafQueue

\* lines 1289-1293: every other planet gets a fresh zero velocity
VelocitiesAfterFocus(i) ==
    [j \in PlanetIndices |-> IF j # i THEN 0 ELSE planetVelocities[j]]

\* focusOnPlanet(globalPlanetIndex) up to its await, and past it when the
\* mesh is at hand without a network round trip
focusOnPlanet(i) ==
    /\ initDone
    /\ i \in PlanetIndices
    /\ calls < MaxCalls
    /\ instancedMeshVisible' = FALSE
    /\ calls' = calls + 1
    /\ selectedPlanetIndex' = i
    /\ focused' = [focused EXCEPT ![i] = TRUE]
    /\ planetVelocities' = VelocitiesAfterFocus(i)
    /\ restoreSettled' = FALSE
    /\ UNCHANGED << position, originalPosition, cameraPosition,
                    controlsTarget, frameError, frames, restoreWriters,
                    cameraWriters, loadOutcome, initDone, bench >>
    /\ LET key == biomeOf(i)
           fm == MeshAfterRemoval
           scene == SceneAfterRemoval
           queue == QueueAfterSwitch(i)
       IN  IF key \notin TEXTURE_MAPS
           THEN \* lines 1368-1371
                /\ FocusTail(i, NoMesh, fm, queue)
                /\ sceneMeshes' = scene
                /\ last' = Ran("focusOnPlanet", i, NoMesh)
                /\ UNCHANGED << alwaysVisibleMeshes, meshKey, HdTextureCache,
                                pendingLoads, hdCalls >>
           ELSE IF alwaysVisibleMeshes[key] # NoMesh
           THEN \* lines 1353-1355
                /\ FocusTail(i, alwaysVisibleMeshes[key], fm, queue)
                /\ sceneMeshes' = scene
                /\ last' = Ran("focusOnPlanet", i, NoMesh)
                /\ UNCHANGED << alwaysVisibleMeshes, meshKey, HdTextureCache,
                                pendingLoads, hdCalls >>
           ELSE /\ hdCalls' = hdCalls + 1
                /\ IF HdTextureCache[key] # "absent"
                   THEN \* loadHDTexturesAsync answers from the cache: the
                        \* await ends before any other handler runs
                        /\ AfterAwait(i, hdCalls + 1,
                                      HdTextureCache[key] = "diffuse",
                                      fm, scene, queue)
                        /\ last' = Ran("focusOnPlanet", i,
                                       IF HdTextureCache[key] = "diffuse"
                                       THEN hdCalls + 1 ELSE NoMesh)
                        /\ UNCHANGED << HdTextureCache, pendingLoads >>
                   ELSE \* suspended at line 1339 with the loader shown
                        /\ pendingLoads' = pendingLoads \cup
                               {[id |-> hdCalls + 1, planet |-> i]}
                        /\ loaderVisible' = TRUE
                        /\ focusedHdMesh' = fm
                        /\ sceneMeshes' = scene
                        /\ rafQueue' = queue
                        /\ last' = [Ran("focusOnPlanet", i, NoMesh)
                                       EXCEPT !.suspended = TRUE]
                        /\ UNCHANGED << focusedHdMeshKey, alwaysVisibleMeshes,
                                        meshKey, meshPosition, HdTextureCache,
                                        planetInfo, spotlightsVisible,
                                        spotlightTarget >>

\* focusOnPlanet with an index that planetData.find does not match:
\* lines 1272-1283, the early return comes after the assignment
focusOnMissingPlanet ==
    /\ Idle
    /\ click' = NoClick
    /\ calls < MaxCalls
    /\ calls' = calls + 1
    /\ selectedPlanetIndex' = BadIndex
    /\ rafQueue' = QueueAfterSwitch(BadIndex)
    /\ restoreSettled' = FALSE
    /\ last' = Ran("focusOnPlanet", BadIndex, NoMesh)
    /\ UNCHANGED << position, originalPosition, focused, planetVelocities,
                    focusedHdMesh, focusedHdMeshKey, alwaysVisibleMeshes,
                    sceneMeshes, meshKey, meshPosition, HdTextureCache,
                    pendingLoads, hdCalls, cameraPosition, controlsTarget,
                    planetInfo, loaderVisible, spotlightsVisible,
                    spotlightTarget, frameError, frames, restoreWriters,
                    cameraWriters, loadOutcome, initDone,
                    instancedMeshVisible, timers, bench >>

\* the texture files of a suspended call arrive (diffuse loaded or not):
\* loadHDTexturesAsync fills the cache, createHDPlanetMesh builds the mesh
\* or returns null, and focusOnPlanet resumes after its await
LoadResolves(t, ok) ==
    /\ Idle
    /\ click' = NoClick
    /\ t \in pendingLoads
    /\ pendingLoads' = pendingLoads \ {t}
    /\ HdTextureCache' = [HdTextureCache EXCEPT ![biomeOf(t.planet)] =
                              IF ok THEN "diffuse" ELSE "nodiffuse"]
    /\ AfterAwait(t.planet, t.id, ok, focusedHdMesh, sceneMeshes, rafQueue)
    /\ last' = Ran("loadResolves", t.planet, IF ok THEN t.id ELSE NoMesh)
    /\ UNCHANGED << selectedPlanetIndex, position, originalPosition, focused,
                    planetVelocities, hdCalls, cameraPosition, controlsTarget,
                    frameError, frames, calls, restoreWriters, cameraWriters,
                    restoreSettled, loadOutcome, initDone,
                    instancedMeshVisible, timers, bench >>

\* ---------------------------------------------------- clearPlanetFocus
\* a clearPlanetFocus that stops the selected planet only
VelocitiesAfterClearSelectedOnly(vel) ==
    [j \in PlanetIndices |-> IF j = selectedPlanetIndex THEN 0 ELSE vel[j]]

\* a clearPlanetFocus that lets the velocities decay instead of zeroing them
VelocitiesAfterClearDamped(vel) ==
    [j \in PlanetIndices |-> Quot(vel[j] * dampingFactor, 100)]

\* lines 1442-1444: velocity.set(0, 0, 0) on every entry
VelocitiesAfterClear(vel) == [j \in PlanetIndices |-> 0]

\* lines 1428-1486
clearPlanetFocus ==
    /\ initDone
    /\ calls < MaxCalls
    /\ calls' = calls + 1
    /\ IF selectedPlanetIndex # NoPlanet
       THEN /\ focused' = [j \in PlanetIndices |->
                              IF j = selectedPlanetIndex THEN FALSE
                              ELSE focused[j]]
            /\ selectedPlanetIndex' = NoPlanet
            /\ rafQueue' = restorePlanetsToOriginalPositions(
                               rafQueue, DefaultRestoreDuration)
            /\ planetVelocities' = VelocitiesAfterClear(planetVelocities)
            /\ IF focusedHdMesh # NoMesh /\ focusedHdMeshKey # NoKey
                  /\ ~alwaysVisible(focusedHdMeshKey)
               THEN /\ sceneMeshes' = sceneMeshes \ {focusedHdMesh}
                    /\ focusedHdMesh' = NoMesh
                    /\ focusedHdMeshKey' = NoKey
               ELSE UNCHANGED << sceneMeshes, focusedHdMesh,
                                 focusedHdMeshKey >>
            /\ instancedMeshVisible' = TRUE
            /\ spotlightsVisible' = FALSE
            /\ restoreSettled' = FALSE
       ELSE UNCHANGED << focused, selectedPlanetIndex, rafQueue,
                         planetVelocities, sceneMeshes, focusedHdMesh,
                         focusedHdMeshKey, spotlightsVisible,
                         restoreSettled, instancedMeshVisible >>
    /\ planetInfo' = NoPlanet
    /\ last' = Ran("clearPlanetFocus", NoPlanet, NoMesh)
    /\ UNCHANGED << position, originalPosition, alwaysVisibleMeshes, meshKey,
                    meshPosition, HdTextureCache, pendingLoads, hdCalls,
                    cameraPosition, controlsTarget, loaderVisible,
                    spotlightTarget, frameError, frames, restoreWriters,
                    cameraWriters, loadOutcome, initDone, bench >>

\* ------------------------------------------------------------ the frame
\* a push that does not stop at the repulsion radius
RepulsionOnUnbounded(pos, j, sel) ==
    LET distance == Abs(pos[j] - pos[sel])
    IN  IF distance > 0
        THEN Sign(pos[j] - pos[sel])
               * Quot((radius - distance) * strength, radius)
        ELSE 0

\* a push that clamps the distance instead of skipping the planet at
\* distance 0
RepulsionOnClamped(pos, j, sel) ==
    LET distance == Abs(pos[j] - pos[sel])
    IN  IF distance < radius
        THEN (IF pos[j] < pos[sel] THEN -1 ELSE 1)
               * Quot((radius - distance) * strength, radius)
        ELSE 0

\* lines 1087-1095: the push one planet gets from the selected one
RepulsionOn(pos, j, sel) ==
    LET distance == Abs(pos[j] - pos[sel])
    IN  IF distance < radius /\ distance > 0
        THEN Sign(pos[j] - pos[sel])
               * Quot((radius - distance) * strength, radius)
        ELSE 0

\* applyRepulsionForces, lines 1070-1098, for a selected planet of planetData
applyRepulsionForces(pos, vel, sel) ==
    [j \in PlanetIndices |->
        IF j = sel THEN vel[j] ELSE vel[j] + RepulsionOn(pos, j, sel)]

\* updatePlanetVelocities, lines 1138-1154: positions after integration
IntegratedPositions(pos, vel) ==
    [j \in PlanetIndices |-> IF vel[j] # 0 THEN pos[j] + vel[j] ELSE pos[j]]

\* updatePlanetVelocities: velocities after damping
DampedVelocities(vel) ==
    [j \in PlanetIndices |-> Quot(vel[j] * dampingFactor, 100)]

\* selectedData = planetData[selectedPlanetIndex] is undefined and reading
\* its position throws (line 1074)
RepulsionThrows ==
    selectedPlanetIndex # NoPlanet /\ selectedPlanetIndex \notin PlanetIndices

\* a restore closure whose target is the position the planet has now
RestoreStepToCurrent(c, e, st) ==
    LET d == c.duration
        p == Min(e, d)
        num == d * d * d - (d - p) * (d - p) * (d - p)
        den == d * d * d
    IN  [st EXCEPT
           !.pos = [j \in PlanetIndices |->
                       lerpVectors(c.startPositions[j], st.pos[j], num, den)],
           !.vel = [j \in PlanetIndices |-> Quot(st.vel[j] * (d - p), d)],
           !.restores = st.restores + 1]

\* a restore closure that interpolates positions and forgets the velocities
RestoreStepKeepsVelocity(c, e, st) ==
    LET d == c.duration
        p == Min(e, d)
        num == d * d * d - (d - p) * (d - p) * (d - p)
        den == d * d * d
    IN  [st EXCEPT
           !.pos = [j \in PlanetIndices |->
                       lerpVectors(c.startPositions[j], originalPosition[j],
                                   num, den)],
           !.restores = st.restores + 1]

\* one run of the closure of restorePlanetsToOriginalPositions at elapsed e:
\* eased = 1 - (1 - progress)^3 with progress = min(e / duration, 1)
RestoreStep(c, e, st) ==
    LET d == c.duration
        p == Min(e, d)
        num == d * d * d - (d - p) * (d - p) * (d - p)
        den == d * d * d
    IN  [st EXCEPT
           !.pos = [j \in PlanetIndices |->
                       lerpVectors(c.startPositions[j], originalPosition[j],
                                   num, den)],
           !.vel = [j \in PlanetIndices |-> Quot(st.vel[j] * (d - p), d)],
           !.restores = st.restores + 1]

\* one run of the closure of animateCameraTo at elapsed e: ease in-out
CameraStep(c, e, st) ==
    LET d == c.duration
        p == Min(e, d)
        num == IF 2 * p < d THEN 2 * p * p
               ELSE 2 * d * d - (2 * d - 2 * p) * (2 * d - 2 * p)
        den == IF 2 * p < d THEN d * d ELSE 2 * d * d
    IN  [st EXCEPT
           !.cam = lerpVectors(c.startPosition, c.cameraTarget, num, den),
           !.target = lerpVectors(c.startTarget, st.pos[c.planet], num, den),
           !.cameras = st.cameras + 1]

\* the browser runs the queued closures in the order they were queued; a
\* closure queues itself again while progress < 1
RECURSIVE RunClosures(_, _, _)
RunClosures(queue, dt, st) ==
    IF queue = << >> THEN st
    ELSE LET c == Head(queue)
             e == c.elapsed + dt
             st1 == IF c.kind = "restore" THEN RestoreStep(c, e, st)
                    ELSE CameraStep(c, e, st)
             st2 == IF e < c.duration
                    THEN [st1 EXCEPT !.queue =
                              Append(st1.queue, [c EXCEPT !.elapsed = e])]
                    ELSE st1
         IN  RunClosures(Tail(queue), dt, st2)

HasRestore(queue) == \E k \in 1 .. Len(queue) : queue[k].kind = "restore"

\* a planetData entry whose originalPosition is its position vector itself
StoredOriginalAliased(orig, pos) == pos

\* lines 858-859: position and originalPosition are two clones, a write to
\* the one (setMatrixAt / add / lerpVectors on position) leaves the other
StoredOriginal(orig, pos) == orig

\* one animation frame, dt ticks after the previous one: animate() of the
\* viewer (lines 1572-1586) runs first, then the queued closures
Frame(dt) ==
    /\ Idle
    /\ click' = NoClick
    /\ frames < MaxFrames
    /\ frames' = frames + 1
    /\ LET sel == selectedPlanetIndex
           moves == sel # NoPlanet /\ ~RepulsionThrows
           vel0 == IF moves
                   THEN applyRepulsionForces(position, planetVelocities, sel)
                   ELSE planetVelocities
           pos1 == IF RepulsionThrows THEN position
                   ELSE IntegratedPositions(position, vel0)
           vel1 == IF RepulsionThrows THEN planetVelocities
                   ELSE DampedVelocities(vel0)
           st == RunClosures(rafQueue, dt,
                     [pos |-> pos1, vel |-> vel1, cam |-> cameraPosition,
                      target |-> controlsTarget, restores |-> 0,
                      cameras |-> 0, queue |-> << >>])
           ended == HasRestore(rafQueue) /\ ~HasRestore(st.queue)
       IN  /\ position' = st.pos
           /\ originalPosition' = StoredOriginal(originalPosition, st.pos)
           /\ planetVelocities' = st.vel
           /\ cameraPosition' = st.cam
           /\ controlsTarget' = st.target
           /\ rafQueue' = st.queue
           /\ restoreWriters' = st.restores
           /\ cameraWriters' = st.cameras
           /\ frameError' = RepulsionThrows
           /\ restoreSettled' = (ended \/ (restoreSettled /\ ~HasRestore(st.queue)))
           /\ last' = [Ran("frame", NoPlanet, NoMesh)
                          EXCEPT !.restoreEnded = ended]
    /\ UNCHANGED << selectedPlanetIndex, focused,
                    focusedHdMesh, focusedHdMeshKey, alwaysVisibleMeshes,
                    sceneMeshes, meshKey, meshPosition, HdTextureCache,
                    pendingLoads, hdCalls, calls, planetInfo, loaderVisible,
                    spotlightsVisible, spotlightTarget, loadOutcome,
                    initDone, instancedMeshVisible, timers, bench >>

\* ------------------------------------------------------ search and clicks
\* everything but the click being dispatched
handlerVars ==
    << selectedPlanetIndex, position, originalPosition, focused,
       planetVelocities, focusedHdMesh, focusedHdMeshKey,
       alwaysVisibleMeshes, sceneMeshes, meshKey, meshPosition,
       HdTextureCache, pendingLoads, hdCalls, rafQueue, cameraPosition,
       controlsTarget, planetInfo, loaderVisible, spotlightsVisible,
       spotlightTarget, frameError, frames, calls, restoreWriters,
       cameraWriters, restoreSettled, last, loadOutcome, initDone,
       instancedMeshVisible, timers, bench >>

\* let searchTimeout: the id of the timer setTimeout made last, 0 for null
searchTimeout == Len(timers)

\* a clearTimeout that cancels nothing
clearTimeoutIgnored(tm, id) == tm

\* clearTimeout(id): a timer that has not fired yet never will; any other
\* id is ignored
clearTimeout(tm, id) ==
    [k \in DOMAIN tm |->
        IF k = id /\ tm[k].status = "pending"
        THEN [tm[k] EXCEPT !.status = "cleared"]
        ELSE tm[k]]

\* String.prototype.toLowerCase on the texts and names of the model
toLowerCase(str) ==
    CASE str = "Mustafar" -> "mustafar"
      [] str = "Coruscant" -> "coruscant"
      [] str = "Naboo" -> "naboo"
      [] str = "Tatooine" -> "tatooine"
      [] OTHER -> str

\* lines 504-511: this.planets.find by name and indexOf, NoPlanet when no
\* name matches
FindPlanet(searchTerm) ==
    LET found == {i \in PlanetIndices :
                     toLowerCase(planets[i + 1].name)
                         = toLowerCase(searchTerm)}
    IN  IF found = {} THEN NoPlanet
        ELSE CHOOSE i \in found : \A j \in found : i <= j

\* searchAndFocusPlanet, lines 503-513, as the listeners 'change' and Enter
\* call it (lines 471-477 and 493-499) with the name of planet i in the box
searchAndFocusPlanet(i) ==
    /\ Idle
    /\ timers' = clearTimeout(timers, searchTimeout)
    /\ focusOnPlanet(i)
    /\ click' = NoClick

\* the Escape key in the search box, lines 485-491
EscapeKey ==
    /\ Idle
    /\ timers' = clearTimeout(timers, searchTimeout)
    /\ clearPlanetFocus
    /\ click' = NoClick

\* texts the box can hold after a keystroke: empty, the name of a planet
\* in another case, a name the catalog does not have
SearchTerms == {"", "coruscant", "Tatooine"}

\* the listener of 'input', lines 458-468: the pending search is cancelled
\* and a timer is started for the text now in the box
InputEvent(searchTerm) ==
    /\ Idle
    /\ searchTimeout < MaxInputs
    /\ timers' = Append(clearTimeout(timers, searchTimeout),
                        [term |-> searchTerm, status |-> "pending"])
    /\ click' = NoClick
    /\ UNCHANGED << selectedPlanetIndex, position, originalPosition, focused,
                    planetVelocities, focusedHdMesh, focusedHdMeshKey,
                    alwaysVisibleMeshes, sceneMeshes, meshKey, meshPosition,
                    HdTextureCache, pendingLoads, hdCalls, rafQueue,
                    cameraPosition, controlsTarget, planetInfo, loaderVisible,
                    spotlightsVisible, spotlightTarget, frameError, frames,
                    calls, restoreWriters, cameraWriters, restoreSettled,
                    last, loadOutcome, initDone, instancedMeshVisible,
                    bench >>

\* the callback of setTimeout, lines 463-467, for timer id
SearchTimeoutFires(id) ==
    /\ Idle
    /\ id \in DOMAIN timers
    /\ timers[id].status = "pending"
    /\ timers' = [timers EXCEPT ![id].status = "fired"]
    /\ click' = NoClick
    /\ IF timers[id].term # "" /\ FindPlanet(timers[id].term) # NoPlanet
       THEN focusOnPlanet(FindPlanet(timers[id].term))
       ELSE UNCHANGED << selectedPlanetIndex, position, originalPosition,
                         focused, planetVelocities, focusedHdMesh,
                         focusedHdMeshKey, alwaysVisibleMeshes, sceneMeshes,
                         meshKey, meshPosition, HdTextureCache, pendingLoads,
                         hdCalls, rafQueue, cameraPosition, controlsTarget,
                         planetInfo, loaderVisible, spotlightsVisible,
                         spotlightTarget, frameError, frames, calls,
                         restoreWriters, cameraWriters, restoreSettled, last,
                         loadOutcome, initDone, instancedMeshVisible, bench >>

\* elements of the page a click can land on: the overlays with a click
\* listener of their own, .planet-tooltip and #clear-search, and "canvas"
\* for every other element: the code has nothing that tells a click on
\* #planet-search or #planet-info from a click on the canvas
Overlays == {"planet-tooltip", "clear-search"}

ClickTargets == {"canvas"} \cup Overlays

\* what the ray under the pointer meets: a planet of the catalog or nothing
RayHits == PlanetIndices \cup {NoPlanet}

\* the planet a .planet-tooltip stands for (lines 311-328): the first one of
\* an always visible biome
TooltipPlanets ==
    {i \in PlanetIndices :
        /\ alwaysVisible(biomeOf(i))
        /\ \A j \in PlanetIndices : biomeOf(j) = biomeOf(i) => i <= j}

\* the two raycasts of onMouseClick, lines 1232-1268: the planet that
\* focusOnPlanet is called for when the ray meets planet `hit`
RayPick(hit) ==
    IF hit = NoPlanet THEN NoPlanet
    ELSE IF instancedMeshVisible THEN hit
    ELSE IF /\ alwaysVisible(biomeOf(hit))
            /\ alwaysVisibleMeshes[biomeOf(hit)] # NoMesh
            /\ hit # selectedPlanetIndex
         THEN hit
         ELSE NoPlanet

\* the click has been through the listener of window; for a click on an
\* overlay `click` keeps whether it got to the raycast
Dispatched(target, raycast) ==
    IF target \in Overlays
    THEN [target |-> target, phase |-> "done", raycast |-> raycast,
          hit |-> NoPlanet]
    ELSE NoClick

\* onMouseClick, lines 1221-1269, the click listener of window (line 1158)
onMouseClick(target, hit) ==
    IF target = "planet-tooltip"
    THEN /\ click' = Dispatched(target, FALSE)
         /\ UNCHANGED handlerVars
    ELSE IF RayPick(hit) # NoPlanet
    THEN /\ click' = Dispatched(target, TRUE)
         /\ focusOnPlanet(RayPick(hit))
         /\ UNCHANGED timers
    ELSE /\ click' = Dispatched(target, TRUE)
         /\ UNCHANGED handlerVars

\* a click on an element without a click listener of its own: the event
\* reaches window at once
PointerClick(target, hit) ==
    /\ Idle
    /\ target \in ClickTargets \ Overlays
    /\ onMouseClick(target, hit)

\* a click on a tooltip: its own listener (lines 328-330) runs first, the
\* event then bubbles to window
TooltipClick(i) ==
    /\ Idle
    /\ i \in TooltipPlanets
    /\ focusOnPlanet(i)
    /\ UNCHANGED timers
    /\ click' = [target |-> "planet-tooltip", phase |-> "bubbling",
                 raycast |-> FALSE, hit |-> NoPlanet]

\* a click on #clear-search: its own listener (lines 479-483) runs first,
\* the event then bubbles to window
ClearButtonClick(hit) ==
    /\ Idle
    /\ timers' = clearTimeout(timers, searchTimeout)
    /\ clearPlanetFocus
    /\ click' = [target |-> "clear-search", phase |-> "bubbling",
                 raycast |-> FALSE, hit |-> hit]

\* the click listener of window gets the event that bubbles
WindowListener ==
    /\ initDone
    /\ click.phase = "bubbling"
    /\ onMouseClick(click.target, click.hit)

\* ------------------------------------------------------- specifications
\* the handlers the page can run: clicks and searches name planets of the
\* catalog only
Next ==
    \/ \E i \in PlanetIndices : searchAndFocusPlanet(i)
    \/ EscapeKey
    \/ \E t \in pendingLoads, ok \in BOOLEAN : LoadResolves(t, ok)
    \/ \E dt \in FrameDts : Frame(dt)
    \/ \E target \in ClickTargets, hit \in RayHits : PointerClick(target, hit)
    \/ \E i \in PlanetIndices : TooltipClick(i)
    \/ \E hit \in RayHits : ClearButtonClick(hit)
    \/ WindowListener

Spec == Init /\ [][Next]_vars

\* focusOnPlanet as a method any caller may reach, with any index
NextApi == Next \/ focusOnMissingPlanet

SpecApi == Init /\ [][NextApi]_vars

\* focus, clear and frames alone, the frames a second apart: a restore
\* runs to its end within the frames explored
NextRestore ==
    \/ \E i \in PlanetIndices : searchAndFocusPlanet(i)
    \/ EscapeKey
    \/ \E t \in pendingLoads, ok \in BOOLEAN : LoadResolves(t, ok)
    \/ \E dt \in SlowFrameDts : Frame(dt)

SpecRestore == Init /\ [][NextRestore]_vars

\* the search box: its listeners, its timer, and what they set going
NextSearch ==
    \/ \E searchTerm \in SearchTerms : InputEvent(searchTerm)
    \/ \E id \in DOMAIN timers : SearchTimeoutFires(id)
    \/ \E i \in PlanetIndices : searchAndFocusPlanet(i)
    \/ EscapeKey
    \/ \E hit \in RayHits : ClearButtonClick(hit)
    \/ WindowListener
    \/ \E t \in pendingLoads, ok \in BOOLEAN : LoadResolves(t, ok)

SpecSearch == Init /\ [][NextSearch]_vars

\* ---------------------------------------------- functions under test
\* the state of the viewer, which a function under test leaves alone
viewerVars ==
    << selectedPlanetIndex, position, originalPosition, focused,
       planetVelocities, focusedHdMesh, focusedHdMeshKey,
       alwaysVisibleMeshes, sceneMeshes, meshKey, meshPosition,
       HdTextureCache, pendingLoads, hdCalls, rafQueue, cameraPosition,
       controlsTarget, planetInfo, loaderVisible, spotlightsVisible,
       spotlightTarget, frameError, frames, calls, restoreWriters,
       cameraWriters, restoreSettled, last, loadOutcome, initDone,
       instancedMeshVisible, click, timers >>

\* positions applyRepulsionForces is run on: planets on top of each other,
\* inside the repulsion radius, on its edge and beyond it
RepulsionPositions == {0, 250, 400, 900}

\* velocities the planets have before the step
RepulsionVelocities == {-3, 0, 8}

\* applyRepulsionForces is handed any placement of the planets
InitRepulsion ==
    /\ ViewerInit("ok")
    /\ bench \in [fn : {"applyRepulsionForces"},
                  pos : [PlanetIndices -> RepulsionPositions],
                  vel : [PlanetIndices -> RepulsionVelocities],
                  sel : PlanetIndices,
                  out : {<< >>},
                  done : {FALSE},
                  posOut : {<< >>},
                  velOut : {<< >>},
                  integrated : {FALSE}]

\* one call of applyRepulsionForces, lines 1070-1098
RepulsionStep ==
    /\ bench.fn = "applyRepulsionForces"
    /\ ~bench.done
    /\ bench' = [bench EXCEPT
                    !.out = applyRepulsionForces(bench.pos, bench.vel,
                                                 bench.sel),
                    !.done = TRUE]
    /\ UNCHANGED viewerVars

\* the call of updatePlanetVelocities that follows it in animate(), lines
\* 1577-1578
VelocitiesStep ==
    /\ bench.fn = "applyRepulsionForces"
    /\ bench.done
    /\ ~bench.integrated
    /\ bench' = [bench EXCEPT
                    !.posOut = IntegratedPositions(bench.pos, bench.out),
                    !.velOut = DampedVelocities(bench.out),
                    !.integrated = TRUE]
    /\ UNCHANGED viewerVars

NextRepulsion == RepulsionStep \/ VelocitiesStep

SpecRepulsion == InitRepulsion /\ [][NextRepulsion]_vars

\* ------------------------------------------------ parser/parse-planets.js
\* strings are sequences of one-character strings

\* length of the grid strings handed to parseGridCoord
MaxGridLen == 4

\* the characters [A-Z] of the pattern, in the order of their char codes
UpperCase ==
    << "A", "B", "C", "D", "E", "F", "G", "H", "I", "J", "K", "L", "M",
       "N", "O", "P", "Q", "R", "S", "T", "U", "V", "W", "X", "Y", "Z" >>

\* the characters \d of the pattern, in the order of their values
DecimalDigits == << "0", "1", "2", "3", "4", "5", "6", "7", "8", "9" >>

\* characters the strings under test are made of
GridChars == {"A", "U", "Z", "a", "-", "0", "1", " ", "\r", "\n"}

IsUpperCase(c) == \E k \in 1 .. Len(UpperCase) : UpperCase[k] = c

IsDigit(c) == \E k \in 1 .. Len(DecimalDigits) : DecimalDigits[k] = c

\* match[1].charCodeAt(0) - 'A'.charCodeAt(0) + 1
LetterOrdinal(c) == CHOOSE k \in 1 .. Len(UpperCase) : UpperCase[k] = c

DigitValue(c) == (CHOOSE k \in 1 .. Len(DecimalDigits) : DecimalDigits[k] = c) - 1

\* parseInt(match[2], 10) on a string of digits
RECURSIVE ParseInt(_)
ParseInt(ds) ==
    IF ds = << >> THEN 0
    ELSE 10 * ParseInt(SubSeq(ds, 1, Len(ds) - 1)) + DigitValue(ds[Len(ds)])

\* white space and line terminators of String.prototype.trim
IsWhiteSpace(c) == c \in {" ", "\r", "\n"}

RECURSIVE Trim(_)
Trim(str) ==
    IF str = << >> THEN str
    ELSE IF IsWhiteSpace(Head(str)) THEN Trim(Tail(str))
    ELSE IF IsWhiteSpace(str[Len(str)])
         THEN Trim(SubSeq(str, 1, Len(str) - 1))
         ELSE str

\* str.replace(/\r\n.*/, ''): the first "\r\n" goes, with the characters
\* after it up to the next line terminator
ReplaceCrLfTail(str) ==
    LET starts == {k \in 1 .. Len(str) - 1 :
                      str[k] = "\r" /\ str[k + 1] = "\n"}
    IN  IF starts = {} THEN str
        ELSE LET k == CHOOSE a \in starts : \A b \in starts : a <= b
                 stops == {j \in k + 2 .. Len(str) : str[j] \in {"\r", "\n"}}
                 j == IF stops = {} THEN Len(str) + 1
                      ELSE CHOOSE a \in stops : \A b \in stops : a <= b
             IN  SubSeq(str, 1, k - 1) \o SubSeq(str, j, Len(str))

\* return null
NotFound == [found |-> FALSE, x |-> 0, y |-> 0]

\* cleaned.match(/^([A-Z])-(\d+)$/)
MatchesGridPattern(cleaned) ==
    /\ Len(cleaned) >= 3
    /\ IsUpperCase(cleaned[1])
    /\ cleaned[2] = "-"
    /\ \A k \in 3 .. Len(cleaned) : IsDigit(cleaned[k])

\* parseGridCoord, lines 64-81
parseGridCoord(gridStr) ==
    IF gridStr = << >> THEN NotFound
    ELSE LET cleaned == ReplaceCrLfTail(Trim(gridStr))
         IN  IF ~MatchesGridPattern(cleaned) THEN NotFound
             ELSE [found |-> TRUE,
                   x |-> LetterOrdinal(cleaned[1]),
                   y |-> ParseInt(SubSeq(cleaned, 3, Len(cleaned)))]

\* every string of at most MaxGridLen characters
GridStrings == UNION {[1 .. n -> GridChars] : n \in 0 .. MaxGridLen}

InitGrid ==
    /\ ViewerInit("ok")
    /\ bench \in [fn : {"parseGridCoord"}, in : GridStrings,
                  out : {NotFound}, done : {FALSE}]

\* one call of parseGridCoord
GridStep ==
    /\ bench.fn = "parseGridCoord"
    /\ ~bench.done
    /\ bench' = [bench EXCEPT !.out = parseGridCoord(bench.in),
                              !.done = TRUE]
    /\ UNCHANGED viewerVars

SpecGrid == InitGrid /\ [][GridStep]_vars

\* a line of the CSV file is the sequence of its fields, the pieces that
\* line.split(';') yields

\* number of lines after the header in the files handed to parseCSV
MaxRows == 3

\* the header line system;sector;region;grid
CsvHeader == << <<"s">>, <<"s">>, <<"r">>, <<"g">> >>

\* lines the files under test are made of: an empty line, a line of
\* separators, rows with a grid code A-1, Z-1, A1 and none at all, a row
\* of three fields and a row without a system
CsvLines ==
    { << << >> >>,
      << << >>, << >>, << >>, << >>, << >> >>,
      << <<"T">>, <<"s">>, <<"r">>, <<" ", "A", "-", "1">> >>,
      << <<"Z">>, <<"s">>, <<"r">>, <<"Z", "-", "1">> >>,
      << <<"B">>, <<"s">>, <<"r">>, <<"A", "1">> >>,
      << <<"E">>, <<"s">>, <<"r">>, << >> >>,
      << <<"H">>, <<"s">>, <<"r">> >>,
      << << >>, <<"s">>, <<"r">>, <<"A", "-", "1">> >> }

\* !line, once line = lines[i].trim()
IsBlankLine(fields) == Len(fields) = 1 /\ Trim(fields[1]) = << >>

\* line === ';;;;', once line = lines[i].trim()
IsSeparatorLine(fields) ==
    /\ Len(fields) = 5
    /\ Trim(fields[1]) = << >>
    /\ Trim(fields[5]) = << >>
    /\ \A k \in 2 .. 4 : fields[k] = << >>

\* the loop of parseCSV, lines 134-175, from lines[i - 1] on: i counts from
\* 1 where the code counts from 0, so `line: i + 2` of the code is i + 1
RECURSIVE ParseLines(_, _, _)
ParseLines(lines, i, acc) ==
    IF i > Len(lines) THEN acc
    ELSE LET fields == lines[i]
             parts == [k \in 1 .. Len(fields) |-> Trim(fields[k])]
             coords == parseGridCoord(parts[4])
         IN  IF IsBlankLine(fields) \/ IsSeparatorLine(fields)
             THEN ParseLines(lines, i + 1, acc)
             ELSE IF Len(parts) < 4 THEN ParseLines(lines, i + 1, acc)
             ELSE IF parts[1] = << >> THEN ParseLines(lines, i + 1, acc)
             ELSE IF coords.found
             THEN ParseLines(lines, i + 1,
                      [acc EXCEPT !.planets =
                          Append(acc.planets,
                                 [name |-> parts[1], grid |-> parts[4],
                                  x |-> coords.x, y |-> coords.y])])
             ELSE IF parts[4] # << >>
             THEN ParseLines(lines, i + 1,
                      [acc EXCEPT !.errors =
                          Append(acc.errors,
                                 [line |-> i + 1, system |-> parts[1],
                                  grid |-> parts[4]])])
             ELSE ParseLines(lines, i + 1, acc)

\* parseCSV, lines 127-178, on the lines of the file: slice(1) drops the
\* header
parseCSV(content) ==
    ParseLines(Tail(content), 1, [planets |-> << >>, errors |-> << >>])

\* every file of a header and at most MaxRows lines
CsvFiles ==
    {<<CsvHeader>> \o rows :
        rows \in UNION {[1 .. n -> CsvLines] : n \in 0 .. MaxRows}}

InitCsv ==
    /\ ViewerInit("ok")
    /\ bench \in [fn : {"parseCSV"}, in : CsvFiles,
                  out : {[planets |-> << >>, errors |-> << >>]},
                  done : {FALSE}]

\* one call of parseCSV
CsvStep ==
    /\ bench.fn = "parseCSV"
    /\ ~bench.done
    /\ bench' = [bench EXCEPT !.out = parseCSV(bench.in), !.done = TRUE]
    /\ UNCHANGED viewerVars

SpecCsv == InitCsv /\ [][CsvStep]_vars

\* ------------------------------------------------------------- gridTo3D
\* lengths are tenths of a world unit, as in the viewer above

\* CONFIG.SPHERE_RADIUS of src/src/main.js: 200 world units
SPHERE_RADIUS == 2000
\* CONFIG.SPHERE_RADIUS of src/unnamed/part_001: 50 world units
SPHERE_RADIUS_part_001 == 500
\* CONFIG.GRID_SIZE: the grid has the columns A to U and the rows 1 to 21
GRID_SIZE == 21
\* const centerGrid = 11
centerGrid == 11

\* Math.sqrt, rounded down to the unit of the arithmetic
RECURSIVE SqrtBetween(_, _, _)
SqrtBetween(n, lo, hi) ==
    IF lo >= hi THEN lo
    ELSE LET mid == (lo + hi + 1) \div 2
         IN  IF mid * mid <= n THEN SqrtBetween(n, mid, hi)
             ELSE SqrtBetween(n, lo, mid - 1)

sqrt(n) == SqrtBetween(n, 0, 46340)

\* Math.exp(-k / 4) in thousandths, for k = 0, 1, 2, ...
ExpOfMinusQuarters ==
    << 1000, 779, 607, 472, 368, 287, 223, 174, 135, 105,
       82, 64, 50, 39, 30, 24, 18, 14, 11 >>

\* Math.exp(-radialDistance / (maxRadiusXY / 2.5)) in thousandths, the
\* exponent rounded down to a quarter
density(radialDistance) ==
    LET quarters == (10 * radialDistance) \div SPHERE_RADIUS
    IN  IF quarters < Len(ExpOfMinusQuarters)
        THEN ExpOfMinusQuarters[quarters + 1]
        ELSE 0

\* the four draws of Math.random() in gridTo3D: scaleRandomFactor in
\* percent, the two jitters in halves of a cell, randomZFactor in tenths
RandomDraws == [scale : {90, 110}, jx : {-1, 1}, jy : {-1, 1}, z : {10, 15}]

\* depth factors in tenths
Depths == {0, 2, 5, 8, 10}

\* grid cells: columns and rows 1 .. GRID_SIZE
GridCells == 1 .. GRID_SIZE

\* gridTo3D of src/src/main.js, lines 516-550
gridTo3D(gridX, gridY, depthFactor, rnd) ==
    LET x == Quot((2 * (gridX - centerGrid) + rnd.jx) * SPHERE_RADIUS
                      * rnd.scale, GRID_SIZE * 100)
        y == Quot((2 * (gridY - centerGrid) + rnd.jy) * SPHERE_RADIUS
                      * rnd.scale, GRID_SIZE * 100)
        radialDistance == sqrt(x * x + y * y)
        z == Quot((depthFactor - 5) * SPHERE_RADIUS * 2 * 2
                      * density(radialDistance) * rnd.z, 100000)
        maxRadius3D == sqrt(x * x + y * y + z * z)
    IN  IF maxRadius3D > SPHERE_RADIUS
        THEN [x |-> Quot(x * SPHERE_RADIUS, maxRadius3D),
              y |-> Quot(y * SPHERE_RADIUS, maxRadius3D),
              z |-> Quot(z * SPHERE_RADIUS, maxRadius3D)]
        ELSE [x |-> x, y |-> y, z |-> z]

\* gridTo3D of src/unnamed/part_001, lines 130-156
gridTo3D_part_001(gridX, gridY, depth) ==
    LET x == Quot((gridX - centerGrid) * 2 * SPHERE_RADIUS_part_001,
                  GRID_SIZE)
        y == Quot((gridY - centerGrid) * 2 * SPHERE_RADIUS_part_001,
                  GRID_SIZE)
        radiusAtDepth ==
            Quot(sqrt((100 - (depth - 5) * (depth - 5)) * 10000)
                     * SPHERE_RADIUS_part_001, 1000)
        currentRadius == sqrt(x * x + y * y)
        finalZ == Quot((depth - 5) * SPHERE_RADIUS_part_001 * 2, 10)
    IN  IF currentRadius > radiusAtDepth
        THEN [x |-> Quot(x * radiusAtDepth, currentRadius),
              y |-> Quot(y * radiusAtDepth, currentRadius),
              z |-> finalZ]
        ELSE [x |-> x, y |-> y, z |-> finalZ]

\* gridTo3D is handed any cell, any depth and any draws
InitProject ==
    /\ ViewerInit("ok")
    /\ \/ bench \in [fn : {"gridTo3D"}, gridX : GridCells,
                     gridY : GridCells, depth : Depths, rnd : RandomDraws,
                     out : {[x |-> 0, y |-> 0, z |-> 0]}, done : {FALSE}]
       \/ bench \in [fn : {"gridTo3D_part_001"}, gridX : GridCells,
                     gridY : GridCells, depth : Depths,
                     rnd : {[scale |-> 100, jx |-> 0, jy |-> 0, z |-> 10]},
                     out : {[x |-> 0, y |-> 0, z |-> 0]}, done : {FALSE}]

\* one call of gridTo3D of src/src/main.js
ProjectStep ==
    /\ bench.fn = "gridTo3D"
    /\ ~bench.done
    /\ bench' = [bench EXCEPT
                    !.out = gridTo3D(bench.gridX, bench.gridY, bench.depth,
                                     bench.rnd),
                    !.done = TRUE]
    /\ UNCHANGED viewerVars

\* one call of gridTo3D of src/unnamed/part_001
ProjectStep_part_001 ==
    /\ bench.fn = "gridTo3D_part_001"
    /\ ~bench.done
    /\ bench' = [bench EXCEPT
                    !.out = gridTo3D_part_001(bench.gridX, bench.gridY,
                                              bench.depth),
                    !.done = TRUE]
    /\ UNCHANGED viewerVars

NextProject == ProjectStep \/ ProjectStep_part_001

SpecProject == InitProject /\ [][NextProject]_vars

\* ----------------------------------------------- createInstancedPlanets
\* number of records in the catalogs handed to createInstancedPlanets
MaxRecords == 2

\* grid columns and rows the records under test name
CatalogCells == {1, 11, 21}

\* records of planets.json: with a grid cell, or with x, y or both missing
CatalogRecords ==
    {[name |-> "P", region |-> "Deep Core"]}
    \cup {[name |-> "P", region |-> "Deep Core", x |-> c] : c \in CatalogCells}
    \cup {[name |-> "P", region |-> "Deep Core", y |-> c] : c \in CatalogCells}
    \cup {[name |-> "P", region |-> "Deep Core", x |-> c, y |-> d] :
             c \in CatalogCells, d \in CatalogCells}

\* planet.x and planet.y are numbers, not undefined
HasGridCell(planet) == "x" \in DOMAIN planet /\ "y" \in DOMAIN planet

\* a Vector3 with NaN in it: gridTo3D computes with undefined - centerGrid
NaNVector == [nan |-> TRUE, x |-> 0, y |-> 0, z |-> 0]

\* lines 828-849: depth 0.5 (in tenths) of a Deep Core planet alone in its
\* cell, gridTo3D and the random offset, every Math.random() at the upper
\* end of its range (offset of one world unit on each axis)
PlanetPosition(planet) ==
    IF HasGridCell(planet)
    THEN LET basePosition ==
                 gridTo3D(planet.x, planet.y, 5,
                          [scale |-> 110, jx |-> 1, jy |-> 1, z |-> 15])
         IN  [nan |-> FALSE, x |-> basePosition.x + 10,
              y |-> basePosition.y + 10, z |-> basePosition.z + 10]
    ELSE NaNVector

\* createInstancedPlanets, lines 826-871: one planetData entry per record of
\* this.planets, and nothing that tells a caller of a bad record
createInstancedPlanets(records) ==
    [planetData |->
         [k \in 1 .. Len(records) |->
             [index |-> k - 1, name |-> records[k].name,
              position |-> PlanetPosition(records[k]),
              originalPosition |-> PlanetPosition(records[k])]],
     loadError |-> FALSE]

\* every catalog of at most MaxRecords records
Catalogs == UNION {[1 .. n -> CatalogRecords] : n \in 0 .. MaxRecords}

InitCatalog ==
    /\ ViewerInit("ok")
    /\ bench \in [fn : {"createInstancedPlanets"}, in : Catalogs,
                  out : {[planetData |-> << >>, loadError |-> FALSE]},
                  done : {FALSE}]

\* one call of createInstancedPlanets
CatalogStep ==
    /\ bench.fn = "createInstancedPlanets"
    /\ ~bench.done
    /\ bench' = [bench EXCEPT !.out = createInstancedPlanets(bench.in),
                              !.done = TRUE]
    /\ UNCHANGED viewerVars

SpecCatalog == InitCatalog /\ [][CatalogStep]_vars

\* ------------------------------------------ the slots of the instanced mesh
\* velocities the planets have when updatePlanetVelocities runs
InstanceVelocities == {-3, 0, 5}

\* lines 799-801: the planets that get an instance slot
VisiblePlanets(isMobile) ==
    {i \in PlanetIndices : ~isMobile \/ alwaysVisible(biomeOf(i))}

\* lines 822 and 875-892: visiblePlanets.forEach hands out the slots 0, 1,
\* ... in the order of the catalog and records the planet of each slot
SlotsOf(isMobile) ==
    LET visiblePlanets == VisiblePlanets(isMobile)
    IN  [k \in 0 .. (Cardinality(visiblePlanets) - 1) |->
            CHOOSE i \in visiblePlanets :
                Cardinality({j \in visiblePlanets : j < i}) = k]

\* InstancedMesh.setMatrixAt(index, matrix): the matrix goes into the
\* instanceMatrix buffer at index * 16; past the end of the buffer the
\* write stores nothing
setMatrixAt(mesh, index, p) ==
    IF index \in DOMAIN mesh.instanceMatrix
    THEN [mesh EXCEPT !.instanceMatrix[index] = p]
    ELSE [mesh EXCEPT !.outside = mesh.outside \cup {index}]

\* planetData.forEach(data => ... setMatrixAt(data.index, matrix)) for the
\* planets of `writers`, in the order of planetData, from planet i on
RECURSIVE WriteSlots(_, _, _, _)
WriteSlots(mesh, pos, writers, i) ==
    IF i \notin PlanetIndices THEN mesh
    ELSE WriteSlots(IF i \in writers THEN setMatrixAt(mesh, i, pos[i])
                    ELSE mesh,
                    pos, writers, i + 1)

\* the mesh is created for a desktop or a mobile browser, and the planets
\* then have any of the velocities
InitInstances ==
    /\ ViewerInit("ok")
    /\ bench \in [fn : {"setMatrixAt"},
                  isMobile : BOOLEAN,
                  vel : [PlanetIndices -> InstanceVelocities],
                  position : {[i \in PlanetIndices |-> planets[i + 1].at]},
                  mesh : {[instanceMatrix |-> << >>, outside |-> {}]},
                  instanceIndexToPlanetIndex : {<< >>},
                  stage : {"constructed"}]

\* createInstancedPlanets, lines 799-809 and 874-893
CreateInstancedMesh ==
    /\ bench.fn = "setMatrixAt"
    /\ bench.stage = "constructed"
    /\ LET slots == SlotsOf(bench.isMobile)
       IN  bench' = [bench EXCEPT
                        !.instanceIndexToPlanetIndex = slots,
                        !.mesh.instanceMatrix =
                            [k \in DOMAIN slots |-> bench.position[slots[k]]],
                        !.stage = "created"]
    /\ UNCHANGED viewerVars

\* updatePlanetVelocities, lines 1141-1150: the planets with a velocity move
\* and write their matrix
VelocitiesWrite ==
    /\ bench.fn = "setMatrixAt"
    /\ bench.stage = "created"
    /\ LET moved == IntegratedPositions(bench.position, bench.vel)
           writers == {i \in PlanetIndices : bench.vel[i] # 0}
       IN  bench' = [bench EXCEPT
                        !.position = moved,
                        !.vel = DampedVelocities(bench.vel),
                        !.mesh = WriteSlots(bench.mesh, moved, writers, 0),
                        !.stage = "integrated"]
    /\ UNCHANGED viewerVars

\* the last run of the closure of restorePlanetsToOriginalPositions, lines
\* 1112-1120: every planet is back and writes its matrix
RestoreWrite ==
    /\ bench.fn = "setMatrixAt"
    /\ bench.stage = "integrated"
    /\ LET back == [i \in PlanetIndices |-> planets[i + 1].at]
       IN  bench' = [bench EXCEPT
                        !.position = back,
                        !.mesh = WriteSlots(bench.mesh, back,
                                            PlanetIndices, 0),
                        !.stage = "restored"]
    /\ UNCHANGED viewerVars

NextInstances == CreateInstancedMesh \/ VelocitiesWrite \/ RestoreWrite

SpecInstances == InitInstances /\ [][NextInstances]_vars

\* ================================================================ claims
AllowedSelection == PlanetIndices \cup {NoPlanet}

AtOriginalAndStill ==
    \A j \in PlanetIndices :
        position[j] = originalPosition[j] /\ planetVelocities[j] = 0

IsAlwaysVisibleMesh(m) == \E k \in TEXTURE_MAPS : alwaysVisibleMeshes[k] = m

\* C1: in every reachable state at most one planet record has
\* focused = true.
C1_AtMostOneFocused ==
    Cardinality({j \in PlanetIndices : focused[j]}) <= 1

\* C2: a load that resolves for a planet that is no longer the selected one
\* never makes its mesh the active HD asset (focusedHdMesh).
C2_StaleLoadDiscarded ==
    (last.op = "loadResolves" /\ last.mesh # NoMesh
        /\ selectedPlanetIndex \in PlanetIndices
        /\ last.planet # selectedPlanetIndex)
    => focusedHdMesh # last.mesh

\* C3: once no load is pending, every HD mesh in the scene is the current
\* focusedHdMesh or a mesh registered in alwaysVisibleMeshes.
C3_NoOrphanedHdMesh ==
    pendingLoads = {} =>
        \A m \in sceneMeshes : m = focusedHdMesh \/ IsAlwaysVisibleMesh(m)

\* C4: focusOnPlanet(i) while planet i is already selected changes neither
\* the selection, the velocities, the positions, the queued restore/camera
\* animations nor the attached HD mesh.
C4_ReselectIsNoOp ==
    [][(last'.op = "focusOnPlanet" /\ calls' = calls + 1
          /\ last'.planet = selectedPlanetIndex)
       => /\ selectedPlanetIndex' = selectedPlanetIndex
          /\ planetVelocities' = planetVelocities
          /\ position' = position
          /\ rafQueue' = rafQueue
          /\ focusedHdMesh' = focusedHdMesh]_vars

\* C5: focusOnPlanet with an index that matches no planet leaves
\* selectedPlanetIndex at an index of planetData (or none), starts no
\* restore animation, and later frames run without error.
C5_MissingPlanetChangesNothing ==
    /\ selectedPlanetIndex \in AllowedSelection
    /\ ~frameError
    /\ (last.op = "focusOnPlanet" /\ last.planet = BadIndex)
          => ~HasRestore(rafQueue)

C7_OneWriterPerFrame == restoreWriters <= 1 /\ cameraWriters <= 1

\* C8: clearPlanetFocus in the Focused state returns with no selection,
\* every velocity exactly zero and a restore animation just queued; with
\* nothing selected it changes neither positions, velocities nor selection.
C8_ClearZeroesAtOnce ==
    [][(last'.op = "clearPlanetFocus" /\ calls' = calls + 1)
       => IF selectedPlanetIndex # NoPlanet
          THEN /\ selectedPlanetIndex' = NoPlanet
               /\ \A j \in PlanetIndices : planetVelocities'[j] = 0
               /\ Len(rafQueue') = Len(rafQueue) + 1
               /\ rafQueue'[Len(rafQueue')].kind = "restore"
               /\ rafQueue'[Len(rafQueue')].elapsed = 0
               /\ rafQueue'[Len(rafQueue')].startPositions = position
               /\ position' = position
          ELSE /\ selectedPlanetIndex' = NoPlanet
               /\ planetVelocities' = planetVelocities
               /\ position' = position
               /\ rafQueue' = rafQueue]_vars

\* C8 witness: clearPlanetFocus has run in the Focused state while planets
\* were moving
C8_Witness ==
    /\ last.op = "clearPlanetFocus"
    /\ last.selBefore \in PlanetIndices
    /\ last.moving
    /\ HasRestore(rafQueue)

\* C9: in every state in which no planet is selected, focusedHdMesh is
\* empty or a mesh of an always visible key.
C9_NoHdMeshWithoutSelection ==
    selectedPlanetIndex = NoPlanet =>
        (focusedHdMesh = NoMesh \/ alwaysVisible(meshKey[focusedHdMesh]))

\* C10: the panel is empty whenever no planet is selected, and whenever it
\* is not empty it shows the selected planet.
C10_PanelFollowsSelection ==
    /\ selectedPlanetIndex = NoPlanet => planetInfo = NoPlanet
    /\ planetInfo # NoPlanet => planetInfo = selectedPlanetIndex

\* a focusOnPlanet call whose HD mesh could not be had has just come to its
\* end: the load failed, the cache holds no diffuse texture, or the biome
\* has no texture map
AssetFailed ==
    \/ last.op = "loadResolves" /\ last.mesh = NoMesh
    \/ /\ last.op = "focusOnPlanet"
       /\ ~last.suspended
       /\ last.planet \in PlanetIndices
       /\ \/ biomeOf(last.planet) \notin TEXTURE_MAPS
          \/ /\ alwaysVisibleMeshes[biomeOf(last.planet)] = NoMesh
             /\ HdTextureCache[biomeOf(last.planet)] = "nodiffuse"

\* the camera fly-to to planet i was started last
FlyToStarted(i) ==
    /\ rafQueue # << >>
    /\ rafQueue[Len(rafQueue)].kind = "camera"
    /\ rafQueue[Len(rafQueue)].planet = i
    /\ rafQueue[Len(rafQueue)].elapsed = 0

\* C11: an asset failure never blocks the selection.  When a focusOnPlanet
\* call ends without an HD mesh, the panel shows the planet of that call,
\* the camera fly-to to it has been started and the loader is hidden; when
\* no other focus or clear came in between, the planet is still selected
\* and focused; and no frame has thrown.
C11_AssetFailureKeepsSelection ==
    AssetFailed =>
        /\ planetInfo = last.planet
        /\ FlyToStarted(last.planet)
        /\ ~loaderVisible
        /\ ~frameError
        /\ (last.op = "focusOnPlanet" \/ last.selBefore = last.planet) =>
               /\ selectedPlanetIndex = last.planet
               /\ focused[last.planet]

\* a load that failed after the await, with the planet still selected
C11_Witness ==
    /\ last.op = "loadResolves"
    /\ last.mesh = NoMesh
    /\ last.selBefore = last.planet
    /\ planetInfo = last.planet
    /\ selectedPlanetIndex = last.planet

\* C12: in applyRepulsionForces a planet other than the selected one whose
\* position coincides with the selected planet's position (distance 0) gets
\* no velocity contribution: its velocity after the step is its velocity
\* before the step.
C12_CoincidentPlanetNotPushed ==
    bench.done =>
        \A j \in PlanetIndices :
            (j # bench.sel /\ bench.pos[j] = bench.pos[bench.sel]) =>
                bench.out[j] = bench.vel[j]

\* a step with a planet on top of the selected one and another one pushed
C12_Witness ==
    /\ bench.done
    /\ \E j \in PlanetIndices :
           /\ j # bench.sel
           /\ bench.pos[j] = bench.pos[bench.sel]
           /\ bench.vel[j] # 0
    /\ \E j \in PlanetIndices : bench.out[j] # bench.vel[j]

\* C13: originalPosition is write-once.  No step of the viewer (focus,
\* clear, load, click, frame with its repulsion, integration and restore
\* closures) changes any planet's originalPosition.
C13_OriginalPositionWriteOnce ==
    [][originalPosition' = originalPosition]_vars

\* a frame has moved a planet away from its original position while a
\* restore closure was writing positions
C13_Witness ==
    /\ last.op = "frame"
    /\ restoreWriters > 0
    /\ \E j \in PlanetIndices : position[j] # originalPosition[j]
    /\ \A j \in PlanetIndices : originalPosition[j] = planetsJson[j + 1].at

\* what the claim says parseGridCoord returns for a string
ClaimedGridCoord(gridStr) ==
    LET cleaned == ReplaceCrLfTail(Trim(gridStr))
    IN  IF /\ MatchesGridPattern(cleaned)
           /\ LetterOrdinal(cleaned[1]) <= GRID_SIZE
        THEN [found |-> TRUE, x |-> LetterOrdinal(cleaned[1]),
              y |-> ParseInt(SubSeq(cleaned, 3, Len(cleaned)))]
        ELSE NotFound

\* C14: parseGridCoord maps LETTER-NUMBER to {x: ordinal of the letter, y:
\* NUMBER} for the letters A to U and returns null for every other input,
\* a letter outside A-U such as "Z-1" included.
C14_GridCoordOnlyAtoU ==
    bench.done => bench.out = ClaimedGridCoord(bench.in)

\* the data rows of a file: line numbers (header = line 1) of the lines
\* with at least one field that name a system
NamesSystem(fields) == Trim(fields[1]) # << >>

\* line n of the file is a row of four fields or more that names a system
IsFullRow(content, n) ==
    /\ Len(content[n]) >= 4
    /\ ~IsSeparatorLine(content[n])
    /\ NamesSystem(content[n])

\* the grid code of the row is LETTER-NUMBER with a letter from A to U
HasWellFormedGrid(fields) == ClaimedGridCoord(fields[4]).found

\* the grid code of the row is there and is not LETTER-NUMBER
HasMalformedGrid(fields) ==
    Trim(fields[4]) # << >> /\ ~ClaimedGridCoord(fields[4]).found

\* the numbers of `set`, in increasing order
RECURSIVE Sorted(_)
Sorted(set) ==
    IF set = {} THEN << >>
    ELSE LET m == CHOOSE a \in set : \A b \in set : a <= b
         IN  <<m>> \o Sorted(set \ {m})

\* C15: parseCSV yields, for every data row, exactly one planet record when
\* its grid code is well formed and exactly one error entry when it is
\* malformed, and the line field of each error is the 1-based line number
\* of its row in the file (header = line 1), blank and skipped rows before
\* it included.
C15_OneRecordOrOneErrorPerRow ==
    bench.done =>
        LET content == bench.in
            rows == {n \in 2 .. Len(content) : IsFullRow(content, n)}
            good == Sorted({n \in rows : HasWellFormedGrid(content[n])})
            bad == Sorted({n \in rows : HasMalformedGrid(content[n])})
        IN  /\ Len(bench.out.planets) = Len(good)
            /\ \A k \in 1 .. Len(good) :
                   bench.out.planets[k].name = Trim(content[good[k]][1])
            /\ Len(bench.out.errors) = Len(bad)
            /\ \A k \in 1 .. Len(bad) :
                   /\ bench.out.errors[k].line = bad[k]
                   /\ bench.out.errors[k].system = Trim(content[bad[k]][1])

\* C16: parseCSV drops no row silently: every row that names a system and
\* whose grid cannot be parsed (malformed, empty, or the row has fewer than
\* four fields) is recorded in errors, and the rows after it are parsed.
C16_NoRowDroppedSilently ==
    bench.done =>
        \A n \in 2 .. Len(bench.in) :
            LET fields == bench.in[n]
            IN  (/\ ~IsBlankLine(fields)
                 /\ ~IsSeparatorLine(fields)
                 /\ NamesSystem(fields)
                 /\ (Len(fields) < 4 \/ ~ClaimedGridCoord(fields[4]).found))
                => \E k \in 1 .. Len(bench.out.errors) :
                       bench.out.errors[k].line = n

\* C17: when the fetch or the parse of planets.json fails, loadPlanets
\* leaves the catalog empty and init runs to its end: the scene holds no
\* planet, the frame loop and the listeners are running, and no frame or
\* input handler that follows throws or selects anything.
C17_LoadFailureLeavesEmptyScene ==
    loadOutcome # "ok" =>
        /\ planets = << >>
        /\ initDone
        /\ DOMAIN position = {}
        /\ ~frameError
        /\ selectedPlanetIndex = NoPlanet
        /\ planetInfo = NoPlanet
        /\ sceneMeshes = {}
        /\ pendingLoads = {}

\* frames and a clear have been handled after a failed fetch
C17_Witness ==
    /\ loadOutcome = "fetchFails"
    /\ frames > 0
    /\ calls > 0
    /\ last.op = "frame"

\* the square of the distance of a point from the origin
SquaredLength(v) == v.x * v.x + v.y * v.y + v.z * v.z

\* the point lies in the sphere of radius r, up to one unit of the fixed
\* point arithmetic
WithinSphere(v, r) == SquaredLength(v) < (r + 1) * (r + 1)

\* C19: clamp-to-sphere.  For every grid cell, every depth factor in [0,1]
\* and every value of the random factors, the point gridTo3D returns is at
\* most CONFIG.SPHERE_RADIUS away from the origin, in the viewer of
\* src/src/main.js and in the one of src/unnamed/part_001.
C19_ClampToSphere ==
    bench.done =>
        IF bench.fn = "gridTo3D"
        THEN WithinSphere(bench.out, SPHERE_RADIUS)
        ELSE WithinSphere(bench.out, SPHERE_RADIUS_part_001)

\* C18: loading a catalog with a malformed record (no grid cell x/y) signals
\* a load error and leaves planetData empty; no planet state with an
\* undefined position is ever stored.
C18_MalformedRecordEmptiesRegistry ==
    bench.done =>
        /\ (\E k \in 1 .. Len(bench.in) : ~HasGridCell(bench.in[k])) =>
               /\ bench.out.loadError
               /\ bench.out.planetData = << >>
        /\ \A k \in 1 .. Len(bench.out.planetData) :
               ~bench.out.planetData[k].position.nan

\* C20: a click selects a planet only when it does not land on an overlay.
\* A click whose target is an overlay (tooltip, search input, clear button,
\* info panel) never gets to the raycast of onMouseClick, and after a click
\* on the clear button no planet is selected.
C20_OverlayClickNeverSelects ==
    (click.phase = "done" /\ click.target \in Overlays) =>
        /\ ~click.raycast
        /\ click.target = "clear-search" => selectedPlanetIndex = NoPlanet

\* C21: a failure in the update of one frame of animate() does not stop the
\* loop: the frame that follows a frame that threw runs its update and its
\* render to the end.
C21_FrameFailureIsContained ==
    [][(frameError /\ frames' = frames + 1) => ~frameError']_vars

\* C22: velocities are zero unless a repulsion or a restore is active.  In
\* every reachable state in which no planet is selected every entry of
\* planetVelocities is zero, and the velocity integration of a frame in
\* that state moves no planet.
C22_StillWithoutSelection ==
    selectedPlanetIndex = NoPlanet =>
        /\ \A j \in PlanetIndices : planetVelocities[j] = 0
        /\ IntegratedPositions(position, planetVelocities) = position

\* a frame has run with no planet selected, after a clearPlanetFocus that
\* found planets displaced by the repulsion
C22_Witness ==
    /\ selectedPlanetIndex = NoPlanet
    /\ last.op = "frame"
    /\ restoreWriters > 0
    /\ \E j \in PlanetIndices : position[j] # originalPosition[j]

\* C23: in a step of applyRepulsionForces only the planets other than the
\* selected one at a distance d with 0 < d < radius from it gain velocity,
\* away from the selected planet and of magnitude (1 - d/radius) * strength;
\* the selected planet and the planets at d >= radius gain nothing; and
\* updatePlanetVelocities then integrates and damps the velocity the
\* selected planet has left, as it does for every other planet.
C23_RepulsionOnlyInsideRadius ==
    bench.done =>
        LET sel == bench.sel
            gain == [j \in PlanetIndices |-> bench.out[j] - bench.vel[j]]
            d == [j \in PlanetIndices |-> Abs(bench.pos[j] - bench.pos[sel])]
        IN  /\ gain[sel] = 0
            /\ \A j \in PlanetIndices \ {sel} :
                   IF 0 < d[j] /\ d[j] < radius
                   THEN /\ Sign(gain[j]) = Sign(bench.pos[j] - bench.pos[sel])
                        /\ radius * Abs(gain[j]) = (radius - d[j]) * strength
                   ELSE gain[j] = 0
            /\ bench.integrated =>
                   /\ bench.posOut[sel] = bench.pos[sel] + bench.vel[sel]
                   /\ 100 * Abs(bench.velOut[sel])
                          <= dampingFactor * Abs(bench.vel[sel])
                   /\ 100 * (Abs(bench.velOut[sel]) + 1)
                          > dampingFactor * Abs(bench.vel[sel])

\* a step in which the selected planet had a velocity left, one planet was
\* pushed and one, at the radius or beyond, was not
C23_Witness ==
    /\ bench.fn = "applyRepulsionForces"
    /\ bench.integrated
    /\ bench.vel[bench.sel] # 0
    /\ bench.posOut[bench.sel] # bench.pos[bench.sel]
    /\ \E j \in PlanetIndices : bench.out[j] # bench.vel[j]
    /\ \E j \in PlanetIndices :
           /\ Abs(bench.pos[j] - bench.pos[bench.sel]) >= radius
           /\ bench.out[j] = bench.vel[j]

\* the timers of tm that have neither fired nor been cancelled
PendingTimers(tm) == {k \in DOMAIN tm : tm[k].status = "pending"}

\* C24: typed search is debounced with at most one pending timer.  After
\* every step the only timer that can still fire is the one of the last
\* keystroke; a step in which a timer fires fires that one; and every step
\* that calls clearPlanetFocus (clear button, Escape) or focusOnPlanet
\* (Enter, change, the timer itself) leaves no timer pending, the focus
\* being on the planet searched for when the step ends.
C24_SearchIsDebounced ==
    [][/\ PendingTimers(timers') \subseteq {Len(timers')}
       /\ \A k \in DOMAIN timers :
              (timers[k].status = "pending" /\ timers'[k].status = "fired")
                  => k = searchTimeout
       /\ (calls' = calls + 1 /\ last'.op = "clearPlanetFocus")
              => /\ PendingTimers(timers') = {}
                 /\ selectedPlanetIndex' = NoPlanet
       /\ (calls' = calls + 1 /\ last'.op = "focusOnPlanet")
              => /\ PendingTimers(timers') = {}
                 /\ selectedPlanetIndex' = last'.planet]_vars

\* a typed search fired and selected its planet, a second one was typed and
\* Escape or the clear button cancelled it
C24_Witness ==
    /\ Len(timers) = 2
    /\ timers[1].status = "fired"
    /\ FindPlanet(timers[1].term) \in PlanetIndices
    /\ timers[2].status = "cleared"
    /\ FindPlanet(timers[2].term) \in PlanetIndices
    /\ calls = 2
    /\ last.op = "clearPlanetFocus"
    /\ last.selBefore = FindPlanet(timers[1].term)
    /\ selectedPlanetIndex = NoPlanet

C26_SlotShowsItsPlanet ==
    (bench.fn = "setMatrixAt" /\ bench.stage # "constructed") =>
        /\ bench.mesh.outside = {}
        /\ \A k \in DOMAIN bench.mesh.instanceMatrix :
               bench.mesh.instanceMatrix[k]
                   = bench.position[bench.instanceIndexToPlanetIndex[k]]

\* the loads of the texture files of `key` that are in flight: one per
\* focusOnPlanet call suspended in loadHDTexturesAsync(key)
RequestsInFlight(key) == {t \in pendingLoads : biomeOf(t.planet) = key}

\* C27: HdTextureCache makes texture loading once-per-key.  The texture
\* files of a key are requested at most once: never are two loads of one
\* key in flight, and none is started once the cache has the key.
C27_TexturesRequestedOncePerKey ==
    \A key \in TEXTURE_MAPS :
        /\ Cardinality(RequestsInFlight(key)) <= 1
        /\ HdTextureCache[key] # "absent" => RequestsInFlight(key) = {}

\* C28: the planet loader tracks the pending loads.  It is visible in every
\* state in which a load started by focusOnPlanet has not resolved yet and
\* hidden when none is pending: a load that resolves for one selection does
\* not hide it while the load of another is pending.
C28_LoaderTracksPendingLoads == loaderVisible <=> pendingLoads # {}

\* C29: focus lighting exists only for the current selection.  Whenever the
\* spotlights and the dust cloud are visible (and the ambient light is
\* raised) a planet is selected and the spotlights target the position of
\* that planet; with no planet selected they are off.
C29_LightingOnlyForSelection ==
    spotlightsVisible =>
        /\ selectedPlanetIndex \in PlanetIndices
        /\ spotlightTarget = position[selectedPlanetIndex]

\* C30: the focused HD mesh sits on its planet.  After focusOnPlanet(B),
\* also when B was displaced by the repulsion of a planet selected before,
\* once the restore animation and the asset load have finished the position
\* of focusedHdMesh (the mesh of B's key) is the position of B.
C30_HdMeshSitsOnPlanet ==
    (/\ selectedPlanetIndex \in PlanetIndices
     /\ pendingLoads = {}
     /\ ~HasRestore(rafQueue)
     /\ focusedHdMesh # NoMesh
     /\ focusedHdMeshKey = biomeOf(selectedPlanetIndex))
    => meshPosition[focusedHdMesh] = position[selectedPlanetIndex]

====
